---- MODULE Spec2Model ----
(***************************************************************************)
(* MileTracker backend: the HTTP handlers of main.py over the tables and   *)
(* the DatabaseManager of database.py.                                     *)
(*                                                                         *)
(* Numbers: distance, potential and the sums over them are Python floats   *)
(* in the code.  Here they are fixed-point integers counting thousandths   *)
(* (2.5 miles is 2500), so that rounding to one or two decimals and the    *)
(* truncation int() are computed, not assumed.  The request values are     *)
(* chosen off the rounding ties, where a binary float and a decimal        *)
(* fraction may round differently.                                         *)
(*                                                                         *)
(* Absent values: a nullable integer key is 0 (ids start at 1), a nullable *)
(* string is "None", an optional row or result is a sequence of length 0   *)
(* or 1.                                                                   *)
(***************************************************************************)
EXTENDS Integers, Sequences, FiniteSets

VARIABLES
    driver,          \* what Database.execute returns for a statement without RETURNING
    trips,           \* table trips: id -> row
    trip_seq,        \* the serial of trips.id: the last id handed out
    routes,          \* table trip_routes: a set of rows
    route_seq,       \* the serial of trip_routes.id
    stats,           \* table trip_stats: <<>> or <<the row with id 1>>
    receipts,        \* table receipts: id -> row
    files,           \* the file names present in uploads/receipts
    uuid_seq,        \* how many uploads have drawn their uuid4 names
    plaid_accounts,  \* table plaid_accounts: a set of rows
    plaid_seq,       \* the serial of plaid_accounts.id
    procs,           \* the requests in flight, statement by statement: slot -> request
    resp             \* the last request and the response it ended with

vars == <<driver, trips, trip_seq, routes, route_seq, stats, receipts, files,
          uuid_seq, plaid_accounts, plaid_seq, procs, resp>>

tripVars == <<trips, trip_seq, routes, route_seq, stats>>
receiptVars == <<receipts, files, uuid_seq>>
plaidVars == <<plaid_accounts, plaid_seq>>

(***************************************************************************)
(* Bounds of the model.                                                    *)
(***************************************************************************)
MaxTripId == 3
MaxUploads == 1
MaxPlaidRows == 2
MaxNewRoutePoints == 3

Null == 0
None == "None"

(***************************************************************************)
(* Arithmetic helpers.                                                     *)
(***************************************************************************)
Max(S) == CHOOSE m \in S : \A x \in S : x <= m

\* A set of integers as a sequence, largest first (ORDER BY ... DESC).
RECURSIVE SeqDesc(_)
SeqDesc(S) == IF S = {} THEN <<>> ELSE <<Max(S)>> \o SeqDesc(S \ {Max(S)})

\* round(x, n) on thousandths: the nearest multiple of step, a tie to the
\* even multiple (Python's round).
RoundTo(x, step) ==
    LET q == x \div step
        r == x % step
    IN  IF 2 * r < step THEN q * step
        ELSE IF 2 * r > step THEN (q + 1) * step
        ELSE IF q % 2 = 0 THEN q * step ELSE (q + 1) * step

\* int(x) of a float: truncation toward zero, to whole units.
PyInt(x) == IF x >= 0 THEN x \div 1000 ELSE -((-x) \div 1000)

\* format_distance, format_potential of main.py.
\* (format_distance_whole: rounding to whole miles instead of one decimal.)
format_distance_whole(distance) == RoundTo(distance, 1000)

format_distance(distance) ==
    IF distance % 1000 = 0 THEN distance ELSE RoundTo(distance, 100)

format_potential(potential) == RoundTo(potential, 10)

(***************************************************************************)
(* Database.execute.  Lines 277 and 320 of database.py compare its result  *)
(* for a DELETE with 0 (a row count); the comment on lines 560-561 says it *)
(* is None for a statement that is no INSERT.  Which of the two holds is   *)
(* fixed by the installed driver, so it is one value chosen at startup.    *)
(***************************************************************************)
Drivers == {"rowcount", "none"}

Execute(rowcount) == IF driver = "rowcount" THEN <<rowcount>> ELSE <<>>

\* `result > 0` on what execute returned: "raise" is Python's TypeError for
\* None > 0.
ResultPositive(result) ==
    IF result = <<>> THEN "raise"
    ELSE IF result[1] > 0 THEN "true" ELSE "false"

(***************************************************************************)
(* insert_sample_data: the rows it writes into an empty database.          *)
(***************************************************************************)
sample_trips == <<
    [date |-> "WED 27", start_time |-> "3:20 PM", end_time |-> "4:05 PM",
     start_location |-> "Home", end_location |-> "Work",
     distance |-> 2500, potential |-> 1340, type |-> "business", notes |-> ""],
    [date |-> "THU 28", start_time |-> "1:15 PM", end_time |-> "2:10 PM",
     start_location |-> "Work", end_location |-> "Client Meeting",
     distance |-> 3100, potential |-> 1660, type |-> "business", notes |-> ""] >>

\* <<latitude, longitude>> in 1e-7 degrees.
sample_route_points == <<
    <<283289978, -814928141>>, <<283279107, -814928196>>,
    <<283294731, -814929894>>, <<283292194, -814939528>>,
    <<283291996, -814945516>>, <<283291808, -814949539>>,
    <<283293274, -814953930>>, <<283293372, -814955010>>,
    <<283300992, -814952811>>, <<283307153, -814953258>>,
    <<283315591, -814953160>> >>

sample_stats ==
    [total_drives |-> 89, total_miles |-> 732000, total_logged |-> 385000,
     business_miles |-> 0, personal_miles |-> 0]

SampleRoutes ==
    { [id |-> (t - 1) * Len(sample_route_points) + i, trip_id |-> t,
       latitude |-> sample_route_points[i][1],
       longitude |-> sample_route_points[i][2],
       sequence_order |-> i - 1] :
          t \in 1..Len(sample_trips), i \in 1..Len(sample_route_points) }

(***************************************************************************)
(* Trip rows and the wire schema.                                          *)
(***************************************************************************)
TripTypes == {"personal", "business"}

\* TripCreate -> the dict create_trip inserts.
TripDict(body) ==
    [date |-> body.date, start_time |-> body.startTime,
     end_time |-> body.endTime, start_location |-> body.startLocation,
     end_location |-> body.endLocation,
     distance |-> format_distance(body.distance),
     potential |-> format_potential(body.potential),
     type |-> body.type, notes |-> body.notes]

\* A trips row (with its id) -> the Trip the handlers return.
TripWire(id, row) ==
    [id |-> id, date |-> row.date, startTime |-> row.start_time,
     endTime |-> row.end_time, startLocation |-> row.start_location,
     endLocation |-> row.end_location,
     distance |-> format_distance(row.distance),
     potential |-> format_potential(row.potential),
     type |-> row.type, notes |-> row.notes]

\* get_trip_by_id: <<>> or <<row>>.
get_trip_by_id(t, trip_id) ==
    IF trip_id \in DOMAIN t THEN <<t[trip_id]>> ELSE <<>>

\* INSERT INTO trips: the table with the row under the next serial id.
InsertTrip(t, id, row) ==
    [i \in DOMAIN t \cup {id} |-> IF i = id THEN row ELSE t[i]]

\* UPDATE trips SET <the allow-listed fields of kwargs> WHERE id = :trip_id.
\* kwargs holds type and notes, None for one that was not passed.
\* (UpdateEveryRow: the same statement without its WHERE clause.)
UpdateEveryRow(t, trip_id, kwargs) ==
    [i \in DOMAIN t |->
        [t[i] EXCEPT
            !.type = IF kwargs.type # None THEN kwargs.type ELSE @,
            !.notes = IF kwargs.notes # None THEN kwargs.notes ELSE @]]

UpdateTripRow(t, trip_id, kwargs) ==
    [i \in DOMAIN t |->
        IF i # trip_id THEN t[i]
        ELSE [t[i] EXCEPT
                !.type = IF kwargs.type # None THEN kwargs.type ELSE @,
                !.notes = IF kwargs.notes # None THEN kwargs.notes ELSE @]]

\* DatabaseManager.update_trip: the table it leaves.  With no allow-listed
\* field passed it only reads.
db_update_trip(t, trip_id, kwargs) ==
    IF kwargs.type = None /\ kwargs.notes = None THEN t
    ELSE UpdateTripRow(t, trip_id, kwargs)

\* DELETE FROM trips WHERE id = :trip_id, with the referential actions of
\* the two foreign keys on trips.id.
DeleteTripRow(t, trip_id) == [i \in DOMAIN t \ {trip_id} |-> t[i]]

\* trip_routes.trip_id: ON DELETE CASCADE.  (RoutesKept: no CASCADE.)
RoutesKept(r, trip_id) == r

RoutesAfterTripDelete(r, trip_id) == {p \in r : p.trip_id # trip_id}

\* receipts.trip_id: ON DELETE SET NULL.  (ReceiptsDropTagged: CASCADE instead.)
ReceiptsDropTagged(rc, trip_id) ==
    [i \in {j \in DOMAIN rc : rc[j].trip_id # trip_id} |-> rc[i]]

ReceiptsAfterTripDelete(rc, trip_id) ==
    [i \in DOMAIN rc |->
        IF rc[i].trip_id = trip_id THEN [rc[i] EXCEPT !.trip_id = Null]
        ELSE rc[i]]

(***************************************************************************)
(* Statistics.                                                             *)
(***************************************************************************)
\* SUM of an integer-valued function over the ids in S.
RECURSIVE SumOver(_, _)
SumOver(f, S) ==
    IF S = {} THEN 0
    ELSE LET i == CHOOSE j \in S : TRUE
         IN  f[i] + SumOver(f, S \ {i})

\* The aggregate query of calculate_trip_stats.
Aggregate(t) ==
    LET ids == DOMAIN t
    IN  [total_drives |-> Cardinality(ids),
         total_miles |-> SumOver([i \in ids |-> t[i].distance], ids),
         total_logged |-> SumOver([i \in ids |-> t[i].potential], ids),
         business_miles |->
             SumOver([i \in ids |-> IF t[i].type = "business"
                                     THEN t[i].distance ELSE 0], ids),
         personal_miles |->
             SumOver([i \in ids |-> IF t[i].type = "personal"
                                     THEN t[i].distance ELSE 0], ids)]

\* INSERT INTO trip_stats (id, ...) VALUES (1, ...) ON CONFLICT (id) DO UPDATE:
\* the table it leaves.  (InsertOrKeep: ON CONFLICT DO NOTHING.)
InsertOrKeep(s, row) == IF s = <<>> THEN <<row>> ELSE s

Upsert(s, row) == <<row>>

\* calculate_trip_stats: the row the upsert leaves (it is also what it returns).
\* (KeepStats: INSERT ... ON CONFLICT DO NOTHING instead of DO UPDATE.)
KeepStats(t, s) == IF s = <<>> THEN <<Aggregate(t)>> ELSE s

calculate_trip_stats(t, s) == Upsert(s, Aggregate(t))

\* get_trip_stats: the dict it returns, and the stats table it leaves.
\* (StatsUntouched: a cold read that computes without the upsert.)
StatsUntouched(t, s) == s

StatsRead(t, s) == IF s # <<>> THEN s[1] ELSE Aggregate(t)

StatsAfterRead(t, s) == IF s # <<>> THEN s ELSE calculate_trip_stats(t, s)

\* GET /api/trips/stats: the body, from the dict get_trip_stats returned.
StatsWire(d) ==
    [totalDrives |-> d.total_drives,
     totalMiles |-> PyInt(d.total_miles),
     totalLogged |-> PyInt(d.total_logged)]

(***************************************************************************)
(* The requests of the model.                                              *)
(***************************************************************************)
TripIds == 1..MaxTripId

\* Bodies of POST /api/trips (TripCreate).
TripBodies == {
    [date |-> "FRI 29", startTime |-> "9:00 AM", endTime |-> "9:40 AM",
     startLocation |-> "Work", endLocation |-> "Airport",
     distance |-> 12000, potential |-> 6480, type |-> "personal", notes |-> "n"],
    [date |-> "SAT 30", startTime |-> "8:05 AM", endTime |-> "8:30 AM",
     startLocation |-> "Home", endLocation |-> "Depot",
     distance |-> 2570, potential |-> 1234, type |-> "business", notes |-> "n"] }

\* Bodies of PUT /api/trips/{id}: type, notes, and a field TripUpdate does
\* not declare ("None"/0: not in the body).
UpdateBodies == {
    [type |-> None, notes |-> None, distance |-> Null],
    [type |-> "personal", notes |-> None, distance |-> Null],
    [type |-> None, notes |-> "n", distance |-> 9900],
    [type |-> "commute", notes |-> None, distance |-> Null] }

\* Pydantic's parse of the body into TripUpdate: <<>> when type is no
\* TripType (a 422), else the declared fields, the others dropped.
ParseTripUpdate(body) ==
    IF body.type # None /\ body.type \notin TripTypes THEN <<>>
    ELSE <<[type |-> body.type, notes |-> body.notes]>>

Response(op, status, arg, body, aux) ==
    [op |-> op, status |-> status, arg |-> arg, body |-> body, aux |-> aux]

\* The slots for requests that run statement by statement (the event loop
\* switches between requests at every await), and a slot with no request.
Procs == {1, 2}

Idle == [op |-> "idle", pc |-> "idle", arg |-> Null, body |-> <<>>, local |-> <<>>]

(***************************************************************************)
(* Trip handlers.                                                          *)
(***************************************************************************)
\* GET /api/trips
GetTrips ==
    /\ resp' = Response("get_trips", 200, Null,
                 [k \in 1..Cardinality(DOMAIN trips) |->
                    TripWire(SeqDesc(DOMAIN trips)[k],
                             trips[SeqDesc(DOMAIN trips)[k]])], <<>>)
    /\ UNCHANGED <<driver, procs, tripVars, receiptVars, plaidVars>>

\* GET /api/trips/stats.  (aux: the `row` get_trip_stats fetched and the
\* dict it returned.)
GetTripStats ==
    /\ stats' = StatsAfterRead(trips, stats)
    /\ resp' = Response("get_trip_stats", 200, Null,
                        StatsWire(StatsRead(trips, stats)),
                        [row |-> stats, stats |-> StatsRead(trips, stats)])
    /\ UNCHANGED <<driver, procs, trips, trip_seq, routes, route_seq, receiptVars,
                   plaidVars>>

\* GET /api/trips/{trip_id}
GetTrip(trip_id) ==
    LET trip == get_trip_by_id(trips, trip_id)
    IN  /\ resp' = IF trip = <<>>
                   THEN Response("get_trip", 404, trip_id, <<>>, <<>>)
                   ELSE Response("get_trip", 200, trip_id,
                                 TripWire(trip_id, trip[1]), <<>>)
        /\ UNCHANGED <<driver, procs, tripVars, receiptVars, plaidVars>>

\* POST /api/trips
CreateTrip(body) ==
    /\ trip_seq < MaxTripId
    /\ LET id == trip_seq + 1
           after == InsertTrip(trips, id, TripDict(body))
           created == get_trip_by_id(after, id)
       IN  /\ trips' = after
           /\ trip_seq' = id
           /\ stats' = calculate_trip_stats(after, stats)
           /\ resp' = Response("create_trip", 200, id,
                               TripWire(id, created[1]), body)
    /\ UNCHANGED <<driver, procs, routes, route_seq, receiptVars, plaidVars>>

\* PUT /api/trips/{trip_id}
UpdateTrip(trip_id, body) ==
    LET parsed == ParseTripUpdate(body)
    IN  IF parsed = <<>>
        THEN /\ resp' = Response("update_trip", 422, trip_id, <<>>, body)
             /\ UNCHANGED <<driver, procs, tripVars, receiptVars, plaidVars>>
        ELSE LET after == db_update_trip(trips, trip_id, parsed[1])
                 updated == get_trip_by_id(after, trip_id)
             IN  /\ trips' = after
                 /\ IF updated = <<>>
                    THEN /\ resp' = Response("update_trip", 404, trip_id, <<>>, body)
                         /\ UNCHANGED stats
                    ELSE /\ stats' = calculate_trip_stats(after, stats)
                         /\ resp' = Response("update_trip", 200, trip_id,
                                             TripWire(trip_id, updated[1]), body)
                 /\ UNCHANGED <<driver, procs, trip_seq, routes, route_seq,
                              receiptVars, plaidVars>>

\* DELETE /api/trips/{trip_id}
DeleteTrip(trip_id) ==
    LET rowcount == IF trip_id \in DOMAIN trips THEN 1 ELSE 0
        after == DeleteTripRow(trips, trip_id)
        success == ResultPositive(Execute(rowcount))
        cleared == {r \in DOMAIN receipts : receipts[r].trip_id = trip_id}
    IN  /\ trips' = after
        /\ routes' = RoutesAfterTripDelete(routes, trip_id)
        /\ receipts' = ReceiptsAfterTripDelete(receipts, trip_id)
        /\ CASE success = "raise" ->
                  /\ resp' = Response("delete_trip", 500, trip_id, <<>>, cleared)
                  /\ UNCHANGED stats
             [] success = "false" ->
                  /\ resp' = Response("delete_trip", 404, trip_id, <<>>, cleared)
                  /\ UNCHANGED stats
             [] success = "true" ->
                  /\ stats' = calculate_trip_stats(after, stats)
                  /\ resp' = Response("delete_trip", 200, trip_id, <<>>, cleared)
        /\ UNCHANGED <<driver, procs, trip_seq, route_seq, files, uuid_seq, plaidVars>>

(***************************************************************************)
(* The trip mutations statement by statement.  Every statement commits on  *)
(* its own and every await lets another request run, so a request in slot  *)
(* p is at one of: "select" (the get_trip_by_id after its INSERT or        *)
(* UPDATE), "aggregate" (the SELECT of calculate_trip_stats), "upsert"     *)
(* (its INSERT ... ON CONFLICT).  local holds the handler's values: trip   *)
(* (what get_trip_by_id gave), stats (what the aggregate gave), and stale, *)
(* a note for the properties of what the stats row was when the request    *)
(* began.                                                                  *)
(***************************************************************************)
\* The stats row against the trips table: "fresh" when it is the aggregate,
\* "seed" when it is the stale row insert_sample_data wrote, else "stale".
StaleKind(t, s) ==
    IF s = <<Aggregate(t)>> THEN "fresh"
    ELSE IF s = <<sample_stats>> THEN "seed" ELSE "stale"

Begin(op, pc, arg, body) ==
    [op |-> op, pc |-> pc, arg |-> arg, body |-> body,
     local |-> [trip |-> <<>>, stats |-> <<>>, stale |-> StaleKind(trips, stats)]]

\* create_trip: the INSERT.
CreateTripInsert(p, body) ==
    /\ procs[p].pc = "idle"
    /\ trip_seq < MaxTripId
    /\ trips' = InsertTrip(trips, trip_seq + 1, TripDict(body))
    /\ trip_seq' = trip_seq + 1
    /\ procs' = [procs EXCEPT ![p] = Begin("create_trip", "select", trip_seq + 1, body)]
    /\ UNCHANGED <<driver, routes, route_seq, stats, receiptVars, plaidVars, resp>>

\* update_trip with a body that parses: the UPDATE (none when the body
\* holds neither type nor notes).
UpdateTripUpdate(p, trip_id, body) ==
    /\ procs[p].pc = "idle"
    /\ ParseTripUpdate(body) # <<>>
    /\ trips' = db_update_trip(trips, trip_id, ParseTripUpdate(body)[1])
    /\ procs' = [procs EXCEPT ![p] = Begin("update_trip", "select", trip_id, body)]
    /\ UNCHANGED <<driver, trip_seq, routes, route_seq, stats, receiptVars,
                   plaidVars, resp>>

\* delete_trip: the DELETE and `result > 0`.
DeleteTripDelete(p, trip_id) ==
    LET rowcount == IF trip_id \in DOMAIN trips THEN 1 ELSE 0
        success == ResultPositive(Execute(rowcount))
    IN  /\ procs[p].pc = "idle"
        /\ trips' = DeleteTripRow(trips, trip_id)
        /\ routes' = RoutesAfterTripDelete(routes, trip_id)
        /\ receipts' = ReceiptsAfterTripDelete(receipts, trip_id)
        /\ CASE success = "raise" ->
                  /\ resp' = Response("delete_trip", 500, trip_id, <<>>,
                                [body |-> <<>>, stale |-> StaleKind(trips, stats)])
                  /\ UNCHANGED procs
             [] success = "false" ->
                  /\ resp' = Response("delete_trip", 404, trip_id, <<>>,
                                [body |-> <<>>, stale |-> StaleKind(trips, stats)])
                  /\ UNCHANGED procs
             [] success = "true" ->
                  /\ procs' = [procs EXCEPT
                                  ![p] = Begin("delete_trip", "aggregate", trip_id, <<>>)]
                  /\ UNCHANGED resp
        /\ UNCHANGED <<driver, trip_seq, route_seq, stats, files, uuid_seq, plaidVars>>

\* get_trip_by_id at the end of DatabaseManager.create_trip / update_trip;
\* update_trip answers 404 when it finds no row.
TripSelect(p) ==
    LET row == get_trip_by_id(trips, procs[p].arg)
    IN  /\ procs[p].pc = "select"
        /\ IF procs[p].op = "update_trip" /\ row = <<>>
           THEN /\ resp' = Response("update_trip", 404, procs[p].arg, <<>>,
                               [body |-> procs[p].body,
                                stale |-> procs[p].local.stale])
                /\ procs' = [procs EXCEPT ![p] = Idle]
           ELSE /\ procs' = [procs EXCEPT ![p].pc = "aggregate",
                                          ![p].local.trip = row]
                /\ UNCHANGED resp
        /\ UNCHANGED <<driver, tripVars, receiptVars, plaidVars>>

\* calculate_trip_stats: the aggregate SELECT.
StatsAggregate(p) ==
    /\ procs[p].pc = "aggregate"
    /\ procs' = [procs EXCEPT ![p].pc = "upsert",
                              ![p].local.stats = <<Aggregate(trips)>>]
    /\ UNCHANGED <<driver, tripVars, receiptVars, plaidVars, resp>>

\* calculate_trip_stats: the upsert of what the aggregate gave, and the
\* return of the handler (create_trip subscripts None when the row it
\* inserted was gone at its SELECT).
StatsUpsert(p) ==
    LET q == procs[p]
        aux == [body |-> q.body, stale |-> q.local.stale]
    IN  /\ q.pc = "upsert"
        /\ stats' = Upsert(stats, q.local.stats[1])
        /\ resp' =
              IF q.op = "delete_trip"
              THEN Response(q.op, 200, q.arg, <<>>, aux)
              ELSE IF q.local.trip = <<>>
              THEN Response(q.op, 500, q.arg, <<>>, aux)
              ELSE Response(q.op, 200, q.arg, TripWire(q.arg, q.local.trip[1]), aux)
        /\ procs' = [procs EXCEPT ![p] = Idle]
        /\ UNCHANGED <<driver, trips, trip_seq, routes, route_seq, receiptVars,
                       plaidVars>>

\* The server stops with requests in flight and is started again: the
\* statements that ran stay committed, the rest never run.  With a trip in
\* the table the insert_sample_data of the restart returns at once.
Crash ==
    /\ \E p \in Procs : procs[p].pc # "idle"
    /\ DOMAIN trips # {}
    /\ procs' = [p \in Procs |-> Idle]
    /\ resp' = Response("crash", 0, Null, <<>>, <<>>)
    /\ UNCHANGED <<driver, tripVars, receiptVars, plaidVars>>

(***************************************************************************)
(* Routes.                                                                 *)
(***************************************************************************)
\* Bodies of POST /api/trips/{id}/route: lists of <<latitude, longitude>>.
RouteBodies == {
    << <<283300000, -814900000>> >>,
    << <<283300000, -814900000>>, <<283310000, -814910000>> >> }

\* add_trip_route_points: the rows its INSERTs add; each call numbers its
\* points from 0 (enumerate).
NewRouteRows(seq, trip_id, points) ==
    { [id |-> seq + i, trip_id |-> trip_id,
       latitude |-> points[i][1], longitude |-> points[i][2],
       sequence_order |-> i - 1] : i \in 1..Len(points) }

\* The results `SELECT ... ORDER BY sequence_order` may give for the rows R:
\* rows of equal sequence_order come in any order.
RECURSIVE Ordered(_)
Ordered(R) ==
    IF R = {} THEN {<<>>}
    ELSE LET heads == {h \in R : \A r \in R : h.sequence_order <= r.sequence_order}
         IN  UNION { {<<h>> \o rest : rest \in Ordered(R \ {h})} : h \in heads }

\* get_trip_route of DatabaseManager: the possible results.
get_trip_route(r, trip_id) == Ordered({row \in r : row.trip_id = trip_id})

\* GET /api/trips/{trip_id}/route
GetTripRoute(trip_id) ==
    /\ \E route_points \in get_trip_route(routes, trip_id) :
          resp' = IF route_points = <<>>
                  THEN Response("get_trip_route", 404, trip_id, <<>>, <<>>)
                  ELSE Response("get_trip_route", 200, trip_id,
                          [k \in 1..Len(route_points) |->
                              [latitude |-> route_points[k].latitude,
                               longitude |-> route_points[k].longitude]], <<>>)
    /\ UNCHANGED <<driver, procs, tripVars, receiptVars, plaidVars>>

\* POST /api/trips/{trip_id}/route
AddTripRoute(trip_id, route_points) ==
    IF get_trip_by_id(trips, trip_id) = <<>>
    THEN /\ resp' = Response("add_trip_route", 404, trip_id, <<>>, route_points)
         /\ UNCHANGED <<driver, procs, tripVars, receiptVars, plaidVars>>
    ELSE /\ route_seq + Len(route_points)
               <= Cardinality(SampleRoutes) + MaxNewRoutePoints
         /\ routes' = routes \cup NewRouteRows(route_seq, trip_id, route_points)
         /\ route_seq' = route_seq + Len(route_points)
         /\ resp' = Response("add_trip_route", 200, trip_id, <<>>, route_points)
         /\ UNCHANGED <<driver, procs, trips, trip_seq, stats, receiptVars, plaidVars>>

(***************************************************************************)
(* Receipts.  A file name is a sequence of its dot-separated parts         *)
(* ("scan.PNG" is <<"scan", "PNG">>, no file name is <<>>); a stored file  *)
(* is <<n, ext>> for "<the n-th uuid4>.<ext>".                             *)
(***************************************************************************)
allowed_extensions == {"jpg", "jpeg", "png", "gif", "bmp", "webp", "tiff", "tif"}

allowed_mime_types ==
    {"image/jpeg", "image/jpg", "image/png", "image/gif", "image/bmp",
     "image/webp", "image/tiff", "image/tif", "application/octet-stream"}

\* str.lower() on the strings of the model.
Lower(str) ==
    CASE str = "PNG" -> "png"
      [] str = "JPG" -> "jpg"
      [] str = "IMAGE/PNG" -> "image/png"
      [] OTHER -> str

\* mime_map.get(file_extension, 'image/jpeg')
mime_map(ext) ==
    CASE ext \in {"jpg", "jpeg"} -> "image/jpeg"
      [] ext = "png" -> "image/png"
      [] ext = "gif" -> "image/gif"
      [] ext = "bmp" -> "image/bmp"
      [] ext = "webp" -> "image/webp"
      [] ext \in {"tiff", "tif"} -> "image/tiff"
      [] OTHER -> "image/jpeg"

\* The extension read off the file name: <<>> or <<ext>>.
FileExtension(filename) ==
    IF Len(filename) >= 2 THEN <<Lower(filename[Len(filename)])>> ELSE <<>>

\* The validation of upload_receipt.
\* (ValidLenient: the last branch taken for every declared type but the
\* generic one.)
ValidLenient(filename, content_type) ==
    LET ext == FileExtension(filename)
    IN  \/ ext # <<>> /\ ext[1] \in allowed_extensions
        \/ content_type # None /\ Lower(content_type) \in allowed_mime_types
        \/ content_type = None \/ content_type # "application/octet-stream"

is_valid_file(filename, content_type) ==
    LET ext == FileExtension(filename)
    IN  \/ ext # <<>> /\ ext[1] \in allowed_extensions
        \/ content_type # None /\ Lower(content_type) \in allowed_mime_types
        \/ content_type = None \/ content_type = "application/octet-stream"

\* The extension the stored file gets.
StoredExtension(filename) ==
    IF FileExtension(filename) = <<>> THEN "jpg" ELSE FileExtension(filename)[1]

\* The MIME type stored with the receipt.
\* (DeclaredMime: the declared type stored as it came.)
DeclaredMime(filename, content_type) == content_type

StoredMime(filename, content_type) ==
    IF content_type = None \/ content_type = "application/octet-stream"
    THEN mime_map(StoredExtension(filename))
    ELSE content_type

\* main.py imports no traceback module, so the traceback.print_exc() that
\* opens the handler of `except Exception` raises NameError and the lines
\* after it, which remove the file, do not run.
TracebackImported == FALSE

\* The upload directory after the `except Exception` handler of upload_receipt.
ExceptCleanup(fs, f) == IF TracebackImported THEN fs \ {f} ELSE fs

\* INSERT INTO receipts.
InsertReceipt(rc, id, row) ==
    [i \in DOMAIN rc \cup {id} |-> IF i = id THEN row ELSE rc[i]]

get_receipt_by_id(rc, receipt_id) ==
    IF receipt_id \in DOMAIN rc THEN <<rc[receipt_id]>> ELSE <<>>

\* UPDATE receipts SET trip_id = :trip_id WHERE id = :receipt_id
SetReceiptTrip(rc, receipt_id, trip_id) ==
    [i \in DOMAIN rc |->
        IF i = receipt_id THEN [rc[i] EXCEPT !.trip_id = trip_id] ELSE rc[i]]

\* DELETE FROM receipts WHERE id = :receipt_id
\* (KeepReceiptRow: the row stays.)
KeepReceiptRow(rc, receipt_id) == rc

DeleteReceiptRow(rc, receipt_id) == [i \in DOMAIN rc \ {receipt_id} |-> rc[i]]

\* A receipts row (with its id) -> the record the handlers return.
ReceiptWire(id, row) ==
    [id |-> id, url |-> row.url, name |-> row.name, tripId |-> row.trip_id]

ReceiptList(rc, ids) ==
    [k \in 1..Cardinality(ids) |-> ReceiptWire(SeqDesc(ids)[k], rc[SeqDesc(ids)[k]])]

ReceiptIds == 1..MaxUploads

\* The uploads of the model: file name and declared content type.
Uploads == {
    [filename |-> <<"a", "jpg">>, content_type |-> None],
    [filename |-> <<"a", "jpg">>, content_type |-> "application/octet-stream"],
    [filename |-> <<"a", "jpg">>, content_type |-> "text/plain"],
    [filename |-> <<"scan", "PNG">>, content_type |-> "image/png"],
    [filename |-> <<"photo">>, content_type |-> "IMAGE/PNG"],
    [filename |-> <<"notes", "txt">>, content_type |-> "text/plain"],
    [filename |-> <<"notes", "txt">>, content_type |-> None],
    [filename |-> <<"report", "pdf">>, content_type |-> "application/pdf"],
    [filename |-> <<>>, content_type |-> "application/octet-stream"] }

\* Where an upload may fail once its file is open: writing the bytes,
\* os.path.getsize, the INSERT of the receipt row.
Faults == {"none", "write", "getsize", "insert"}

\* Where a receipt deletion may fail once the file is removed: the DELETE
\* of the row.
DeleteFaults == {"none", "delete"}

(***************************************************************************)
(* Receipt handlers.                                                       *)
(***************************************************************************)
\* GET /api/receipts
GetReceipts ==
    /\ resp' = Response("get_receipts", 200, Null,
                        ReceiptList(receipts, DOMAIN receipts), <<>>)
    /\ UNCHANGED <<driver, procs, tripVars, receiptVars, plaidVars>>

\* GET /api/receipts/trip/{trip_id}
GetReceiptsForTrip(trip_id) ==
    /\ resp' = Response("get_receipts_for_trip", 200, trip_id,
                 ReceiptList(receipts,
                    {r \in DOMAIN receipts : receipts[r].trip_id = trip_id}), <<>>)
    /\ UNCHANGED <<driver, procs, tripVars, receiptVars, plaidVars>>

\* POST /api/receipts/upload
UploadReceipt(file, fault) ==
    IF ~is_valid_file(file.filename, file.content_type)
    THEN /\ fault = "none"
         /\ resp' = Response("upload_receipt", 400, Null, <<>>,
                             [file |-> file, fault |-> fault, path |-> <<>>])
         /\ UNCHANGED <<driver, procs, tripVars, receiptVars, plaidVars>>
    ELSE /\ uuid_seq < MaxUploads
         /\ LET n == uuid_seq + 1
                ext == StoredExtension(file.filename)
                unique_filename == <<n, ext>>
                receipt_data ==
                    [url |-> <<"uploads", "receipts", unique_filename>>,
                     name |-> IF file.filename # <<>> THEN file.filename
                              ELSE <<"receipt", ext>>,
                     trip_id |-> Null,
                     mime_type |-> StoredMime(file.filename, file.content_type)]
                aux == [file |-> file, fault |-> fault, path |-> unique_filename]
            IN  /\ uuid_seq' = n
                /\ CASE fault = "write" ->
                          \* open() has created the file; the inner handler
                          \* raises HTTPException, which the outer one re-raises
                          /\ files' = files \cup {unique_filename}
                          /\ receipts' = receipts
                          /\ resp' = Response("upload_receipt", 500, Null, <<>>, aux)
                     [] fault \in {"getsize", "insert"} ->
                          /\ files' = ExceptCleanup(files \cup {unique_filename},
                                                    unique_filename)
                          /\ receipts' = receipts
                          /\ resp' = Response("upload_receipt", 500, Null, <<>>, aux)
                     [] fault = "none" ->
                          /\ files' = files \cup {unique_filename}
                          /\ receipts' = InsertReceipt(receipts, n, receipt_data)
                          /\ resp' = Response("upload_receipt", 200, n,
                                              ReceiptWire(n, receipt_data), aux)
         /\ UNCHANGED <<driver, procs, tripVars, plaidVars>>

\* PUT /api/receipts/{receipt_id}/tag
TagReceipt(receipt_id, tripId) ==
    IF receipt_id \in DOMAIN receipts /\ tripId # Null /\ tripId \notin DOMAIN trips
    THEN \* the foreign key on receipts.trip_id refuses the UPDATE
         /\ resp' = Response("tag_receipt", 500, receipt_id, <<>>, tripId)
         /\ UNCHANGED <<driver, procs, tripVars, receiptVars, plaidVars>>
    ELSE LET after == SetReceiptTrip(receipts, receipt_id, tripId)
             updated == get_receipt_by_id(after, receipt_id)
         IN  /\ receipts' = after
             /\ resp' = IF updated = <<>>
                        THEN Response("tag_receipt", 404, receipt_id, <<>>, tripId)
                        ELSE Response("tag_receipt", 200, receipt_id,
                                      ReceiptWire(receipt_id, updated[1]), tripId)
             /\ UNCHANGED <<driver, procs, tripVars, files, uuid_seq, plaidVars>>

\* DELETE /api/receipts/{receipt_id}.  The file is removed first, then the
\* row; with fault "delete" the DELETE statement fails (a storage error) and
\* the exception ends the request.
DeleteReceipt(receipt_id, fault) ==
    LET receipt == get_receipt_by_id(receipts, receipt_id)
    IN  IF receipt = <<>>
        THEN /\ fault = "none"
             /\ resp' = Response("delete_receipt", 404, receipt_id, <<>>,
                                 [fault |-> fault, path |-> <<>>])
             /\ UNCHANGED <<driver, procs, tripVars, receiptVars, plaidVars>>
        ELSE LET file_path == receipt[1].url[Len(receipt[1].url)]
                 success == ResultPositive(Execute(1))
                 aux == [fault |-> fault, path |-> file_path]
             IN  /\ files' = files \ {file_path}
                 /\ IF fault = "delete"
                    THEN /\ receipts' = receipts
                         /\ resp' = Response("delete_receipt", 500, receipt_id,
                                             <<>>, aux)
                    ELSE /\ receipts' = DeleteReceiptRow(receipts, receipt_id)
                         /\ resp' = Response("delete_receipt",
                                       CASE success = "raise" -> 500
                                         [] success = "false" -> 404
                                         [] success = "true" -> 200,
                                       receipt_id, <<>>, aux)
                 /\ UNCHANGED <<driver, procs, tripVars, uuid_seq, plaidVars>>

(***************************************************************************)
(* Linked accounts (plaid_accounts).  No code of the repository writes the *)
(* users table: Users are the rows it holds, user 3 is no row of it.  The  *)
(* institution and account metadata columns are set together and read      *)
(* together, and are one column here, institution_name.                    *)
(***************************************************************************)
Users == {1, 2}

UserIds == Users \cup {3}

ItemIds == {"item-1", "item-2"}

\* The `data` of create_plaid_account in the model.
PlaidData == {
    [item_id |-> "item-1", account_id |-> "acct-1", access_token |-> "token-1",
     institution_name |-> "Bank A"],
    [item_id |-> "item-1", account_id |-> "acct-1", access_token |-> "token-2",
     institution_name |-> "Bank B"],
    [item_id |-> "item-1", account_id |-> "acct-2", access_token |-> "token-1",
     institution_name |-> "Bank A"],
    [item_id |-> "item-2", account_id |-> "acct-1", access_token |-> "token-3",
     institution_name |-> "Bank C"] }

\* SELECT * FROM plaid_accounts WHERE user_id, item_id, account_id match.
\* (FindExistingActive: the same with AND is_active = TRUE.)
FindExistingActive(rows, user_id, item_id, account_id) ==
    {r \in rows : /\ r.user_id = user_id /\ r.item_id = item_id
                  /\ r.account_id = account_id /\ r.is_active}

FindExisting(rows, user_id, item_id, account_id) ==
    {r \in rows : /\ r.user_id = user_id /\ r.item_id = item_id
                  /\ r.account_id = account_id}

\* The UPDATE of create_plaid_account: the matching rows take the new
\* credential and metadata and are active.
\* (RelinkFlagOnly: the same UPDATE setting is_active alone.)
RelinkFlagOnly(rows, user_id, data) ==
    { IF r \in FindExisting(rows, user_id, data.item_id, data.account_id)
      THEN [r EXCEPT !.is_active = TRUE]
      ELSE r : r \in rows }

Relink(rows, user_id, data) ==
    { IF r \in FindExisting(rows, user_id, data.item_id, data.account_id)
      THEN [r EXCEPT !.access_token = data.access_token,
                     !.institution_name = data.institution_name,
                     !.is_active = TRUE]
      ELSE r : r \in rows }

\* The row the INSERT of create_plaid_account adds (is_active by its
\* server default).
NewPlaidRow(id, user_id, data) ==
    [id |-> id, user_id |-> user_id, access_token |-> data.access_token,
     item_id |-> data.item_id, institution_name |-> data.institution_name,
     account_id |-> data.account_id, is_active |-> TRUE]

\* The columns get_user_plaid_accounts selects.
PlaidListed(r) ==
    [id |-> r.id, user_id |-> r.user_id, item_id |-> r.item_id,
     institution_name |-> r.institution_name, account_id |-> r.account_id,
     is_active |-> r.is_active]

\* get_user_plaid_accounts: the active rows of the user (of the item, when
\* one is given, None otherwise), newest first.  Rows are created in the
\* order of their ids.
get_user_plaid_accounts(rows, user_id, item_id) ==
    LET hit == {r \in rows : /\ r.user_id = user_id
                             /\ r.is_active
                             /\ (item_id # None => r.item_id = item_id)}
        ids == SeqDesc({r.id : r \in hit})
    IN  [k \in 1..Len(ids) |-> PlaidListed(CHOOSE r \in hit : r.id = ids[k])]

\* The UPDATE of deactivate_plaid_account.
\* (DeactivateEveryItem: the same without `AND item_id = :item_id`.)
DeactivateEveryItem(rows, user_id, item_id) ==
    { IF r.user_id = user_id /\ r.is_active
      THEN [r EXCEPT !.is_active = FALSE] ELSE r : r \in rows }

Deactivate(rows, user_id, item_id) ==
    { IF r.user_id = user_id /\ r.item_id = item_id /\ r.is_active
      THEN [r EXCEPT !.is_active = FALSE] ELSE r : r \in rows }

\* get_plaid_account_by_item_id(...) is None
NoActiveForItem(rows, user_id, item_id) ==
    ~\E r \in rows : r.user_id = user_id /\ r.item_id = item_id /\ r.is_active

\* create_plaid_account.  It returns dict(row), or {} when the last SELECT
\* finds none; an exception of a statement is caught, printed, and the call
\* returns None.
CreatePlaidAccount(user_id, data) ==
    LET existing == FindExisting(plaid_accounts, user_id, data.item_id,
                                 data.account_id)
        aux == [user_id |-> user_id, data |-> data, existing |-> existing]
    IN  /\ IF existing # {}
           THEN /\ plaid_accounts' = Relink(plaid_accounts, user_id, data)
                /\ UNCHANGED plaid_seq
                /\ \E row \in FindExisting(plaid_accounts', user_id,
                                           data.item_id, data.account_id) :
                      resp' = Response("create_plaid_account", 200, Null, <<row>>, aux)
           ELSE IF user_id \notin Users
           THEN \* the foreign key on plaid_accounts.user_id refuses the INSERT
                /\ UNCHANGED plaidVars
                /\ resp' = Response("create_plaid_account", 200, Null, None, aux)
           ELSE /\ plaid_seq < MaxPlaidRows
                /\ plaid_seq' = plaid_seq + 1
                /\ plaid_accounts' =
                      plaid_accounts \cup {NewPlaidRow(plaid_seq + 1, user_id, data)}
                /\ \E row \in FindExisting(plaid_accounts', user_id,
                                           data.item_id, data.account_id) :
                      resp' = Response("create_plaid_account", 200, Null, <<row>>, aux)
        /\ UNCHANGED <<driver, procs, tripVars, receiptVars>>

\* deactivate_plaid_account
DeactivatePlaidAccount(user_id, item_id) ==
    /\ plaid_accounts' = Deactivate(plaid_accounts, user_id, item_id)
    /\ resp' = Response("deactivate_plaid_account", 200, Null,
                        NoActiveForItem(plaid_accounts', user_id, item_id),
                        [user_id |-> user_id, item_id |-> item_id])
    /\ UNCHANGED <<driver, procs, tripVars, receiptVars, plaid_seq>>

\* get_user_plaid_accounts
GetUserPlaidAccounts(user_id, item_id) ==
    /\ resp' = Response("get_user_plaid_accounts", 200, Null,
                        get_user_plaid_accounts(plaid_accounts, user_id, item_id),
                        [user_id |-> user_id, item_id |-> item_id])
    /\ UNCHANGED <<driver, procs, tripVars, receiptVars, plaidVars>>

(***************************************************************************)
(* create_plaid_account statement by statement.  Each of its three         *)
(* statements is awaited and committed on its own; no transaction, lock or *)
(* unique constraint on (user_id, item_id, account_id) joins them.  pc is  *)
(* the statement the call runs next: "write" (the UPDATE or the INSERT),   *)
(* "return" (the last SELECT); local.existing is what the first SELECT     *)
(* gave.                                                                   *)
(***************************************************************************)
\* The first SELECT.
PlaidSelectExisting(p, user_id, data) ==
    /\ procs[p].pc = "idle"
    /\ procs' = [procs EXCEPT ![p] =
                    [op |-> "create_plaid_account", pc |-> "write",
                     arg |-> user_id, body |-> data,
                     local |-> [existing |->
                                   FindExisting(plaid_accounts, user_id,
                                                data.item_id, data.account_id)]]]
    /\ UNCHANGED <<driver, tripVars, receiptVars, plaidVars, resp>>

\* `if existing:` the UPDATE, else the INSERT (refused by the foreign key
\* for a user that is no row of users: the call prints and returns None).
PlaidWrite(p) ==
    LET q == procs[p]
    IN  /\ q.pc = "write"
        /\ IF q.local.existing # {}
           THEN /\ plaid_accounts' = Relink(plaid_accounts, q.arg, q.body)
                /\ procs' = [procs EXCEPT ![p].pc = "return"]
                /\ UNCHANGED <<plaid_seq, resp>>
           ELSE IF q.arg \notin Users
           THEN /\ resp' = Response("create_plaid_account", 200, Null, None,
                               [user_id |-> q.arg, data |-> q.body,
                                existing |-> q.local.existing])
                /\ procs' = [procs EXCEPT ![p] = Idle]
                /\ UNCHANGED plaidVars
           ELSE /\ plaid_seq < MaxPlaidRows
                /\ plaid_seq' = plaid_seq + 1
                /\ plaid_accounts' =
                      plaid_accounts \cup {NewPlaidRow(plaid_seq + 1, q.arg, q.body)}
                /\ procs' = [procs EXCEPT ![p].pc = "return"]
                /\ UNCHANGED resp
        /\ UNCHANGED <<driver, tripVars, receiptVars>>

\* The last SELECT (fetch_one: one of the rows it matches) and the return.
PlaidReturn(p) ==
    LET q == procs[p]
    IN  /\ q.pc = "return"
        /\ \E row \in FindExisting(plaid_accounts, q.arg, q.body.item_id,
                                   q.body.account_id) :
              resp' = Response("create_plaid_account", 200, Null, <<row>>,
                               [user_id |-> q.arg, data |-> q.body,
                                existing |-> q.local.existing])
        /\ procs' = [procs EXCEPT ![p] = Idle]
        /\ UNCHANGED <<driver, tripVars, receiptVars, plaidVars>>

(***************************************************************************)
(* POST /api/admin/reset-database: insert_sample_data on the running       *)
(* database.  Its statements commit one by one; the serials of trips.id    *)
(* and trip_routes.id go on from where they are.                           *)
(***************************************************************************)
\* The trips rows the two INSERTs add to an empty table.
InsertedSampleTrips(seq) ==
    [i \in (seq + 1)..(seq + Len(sample_trips)) |-> sample_trips[i - seq]]

\* The trip_routes rows added for the trips inserted after trip `seq`.
InsertedSampleRoutes(seq, rseq) ==
    { [id |-> rseq + (t - 1) * Len(sample_route_points) + i, trip_id |-> seq + t,
       latitude |-> sample_route_points[i][1],
       longitude |-> sample_route_points[i][2],
       sequence_order |-> i - 1] :
          t \in 1..Len(sample_trips), i \in 1..Len(sample_route_points) }

\* `count > 0` returns at once.  Otherwise the trips and route points are
\* inserted, and last the stats row with a plain INSERT of id 1: with a row
\* of that id in the table the primary key refuses it and the exception
\* ends the request.
ResetDatabase ==
    IF DOMAIN trips # {}
    THEN /\ resp' = Response("reset_database", 200, Null, <<>>, "kept")
         /\ UNCHANGED <<driver, procs, tripVars, receiptVars, plaidVars>>
    ELSE /\ trip_seq <= MaxTripId
         /\ trips' = InsertedSampleTrips(trip_seq)
         /\ trip_seq' = trip_seq + Len(sample_trips)
         /\ routes' = routes \cup InsertedSampleRoutes(trip_seq, route_seq)
         /\ route_seq' = route_seq + Cardinality(SampleRoutes)
         /\ IF stats = <<>>
            THEN /\ stats' = <<sample_stats>>
                 /\ resp' = Response("reset_database", 200, Null, <<>>, "inserted")
            ELSE /\ stats' = stats
                 /\ resp' = Response("reset_database", 500, Null, <<>>, "inserted")
         /\ UNCHANGED <<driver, procs, receiptVars, plaidVars>>

(***************************************************************************)
(* The state after startup on an empty database: create_tables has run     *)
(* insert_sample_data.                                                     *)
(***************************************************************************)
Init ==
    /\ driver \in Drivers
    /\ trips = [i \in 1..Len(sample_trips) |-> sample_trips[i]]
    /\ trip_seq = Len(sample_trips)
    /\ routes = SampleRoutes
    /\ route_seq = Cardinality(SampleRoutes)
    /\ stats = <<sample_stats>>
    /\ receipts = <<>>
    /\ files = {}
    /\ uuid_seq = 0
    /\ plaid_accounts = {}
    /\ plaid_seq = 0
    /\ procs = [p \in Procs |-> Idle]
    /\ resp = Response("startup", 0, Null, <<>>, <<>>)

\* The trip endpoints, one request at a time.
Next ==
    \/ GetTrips
    \/ GetTripStats
    \/ \E id \in TripIds : GetTrip(id)
    \/ \E body \in TripBodies : CreateTrip(body)
    \/ \E id \in TripIds, body \in UpdateBodies : UpdateTrip(id, body)
    \/ \E id \in TripIds : DeleteTrip(id)

Spec == Init /\ [][Next]_vars

\* A startup whose insert_sample_data was interrupted after the route points
\* and before the INSERT of the stats row, followed by a restart: the trips
\* table is not empty, so insert_sample_data returns at once and there is no
\* stats row.
InitCold ==
    /\ driver \in Drivers
    /\ trips = [i \in 1..Len(sample_trips) |-> sample_trips[i]]
    /\ trip_seq = Len(sample_trips)
    /\ routes = SampleRoutes
    /\ route_seq = Cardinality(SampleRoutes)
    /\ stats = <<>>
    /\ receipts = <<>>
    /\ files = {}
    /\ uuid_seq = 0
    /\ plaid_accounts = {}
    /\ plaid_seq = 0
    /\ procs = [p \in Procs |-> Idle]
    /\ resp = Response("startup", 0, Null, <<>>, <<>>)

\* The trip endpoints on a database without a stats row.
SpecCold == InitCold /\ [][Next]_vars

\* The bodies of the requests that run statement by statement: one POST
\* body, and the PUT body that moves a trip's miles from business to personal.
StatementTripBodies == {body \in TripBodies : body.date = "FRI 29"}

StatementUpdateBodies == {body \in UpdateBodies : body.type = "personal"}

\* The first statement of a trip mutation in slot p, addressing the trips
\* with the given ids, and the statements after the first.
TripBegin(p, ids) ==
    \/ \E body \in StatementTripBodies : CreateTripInsert(p, body)
    \/ \E id \in ids, body \in StatementUpdateBodies : UpdateTripUpdate(p, id, body)
    \/ \E id \in ids : DeleteTripDelete(p, id)

TripContinue(p) ==
    \/ TripSelect(p)
    \/ StatsAggregate(p)
    \/ StatsUpsert(p)

\* Trip mutations one at a time, statement by statement, on a server that
\* may stop between two statements.
NextCrash ==
    \/ TripBegin(1, TripIds)
    \/ TripContinue(1)
    \/ Crash

SpecCrash == Init /\ [][NextCrash]_vars

\* Trip mutations running concurrently, their statements interleaving:
\* creations, and updates and deletions of the sample trips, with the
\* driver under which delete_trip answers as written.
SampleTripIds == 1..Len(sample_trips)

NextConcurrent ==
    \E p \in Procs : TripBegin(p, SampleTripIds) \/ TripContinue(p)

InitConcurrent == Init /\ driver = "rowcount"

SpecConcurrent == InitConcurrent /\ [][NextConcurrent]_vars

\* The route endpoints with the creation and deletion of trips, one request
\* at a time.
NextRoutes ==
    \/ \E id \in TripIds : GetTripRoute(id)
    \/ \E id \in TripIds, points \in RouteBodies : AddTripRoute(id, points)
    \/ \E body \in TripBodies : CreateTrip(body)
    \/ \E id \in TripIds : DeleteTrip(id)

SpecRoutes == Init /\ [][NextRoutes]_vars

\* The reset of the database with the creation and deletion of trips and
\* the reading of the stats, one request at a time, after a startup that
\* wrote the stats row and after one that did not.
NextReset ==
    \/ ResetDatabase
    \/ GetTripStats
    \/ \E body \in StatementTripBodies : CreateTrip(body)
    \/ \E id \in TripIds : DeleteTrip(id)

InitReset == Init \/ InitCold

SpecReset == InitReset /\ [][NextReset]_vars

\* The requests that write a reference to a trip or remove a trip, one at a
\* time: uploads of a.jpg, the creation and deletion of trips, and tags and
\* route points addressed to a sample trip and to the trip created last.
ReferenceUploads ==
    {file \in Uploads : file.filename = <<"a", "jpg">> /\ file.content_type = None}

ReferenceRouteBodies == {points \in RouteBodies : Len(points) = 2}

ReferenceTripIds == {1, MaxTripId}

NextReferences ==
    \/ \E file \in ReferenceUploads : UploadReceipt(file, "none")
    \/ \E r \in ReceiptIds, t \in ReferenceTripIds \cup {Null} : TagReceipt(r, t)
    \/ \E id \in ReferenceTripIds, points \in ReferenceRouteBodies :
          AddTripRoute(id, points)
    \/ \E body \in StatementTripBodies : CreateTrip(body)
    \/ \E id \in TripIds : DeleteTrip(id)

SpecReferences == Init /\ [][NextReferences]_vars

\* The receipt endpoints and the deletion of trips, one request at a time.
NextReceipts ==
    \/ GetReceipts
    \/ \E id \in TripIds : GetReceiptsForTrip(id)
    \/ \E file \in Uploads, fault \in Faults : UploadReceipt(file, fault)
    \/ \E r \in ReceiptIds, t \in TripIds \cup {Null} : TagReceipt(r, t)
    \/ \E r \in ReceiptIds, fault \in DeleteFaults : DeleteReceipt(r, fault)
    \/ \E id \in TripIds : DeleteTrip(id)

SpecReceipts == Init /\ [][NextReceipts]_vars

\* The requests that change receipts or their files, one at a time, with no
\* storage or file operation failing.
NextReceiptsNoFault ==
    \/ \E file \in Uploads : UploadReceipt(file, "none")
    \/ \E r \in ReceiptIds, t \in TripIds \cup {Null} : TagReceipt(r, t)
    \/ \E r \in ReceiptIds : DeleteReceipt(r, "none")
    \/ \E id \in TripIds : DeleteTrip(id)

SpecReceiptsNoFault == Init /\ [][NextReceiptsNoFault]_vars

\* The linked-account operations of DatabaseManager, one call at a time.
NextPlaid ==
    \/ \E u \in UserIds, data \in PlaidData : CreatePlaidAccount(u, data)
    \/ \E u \in Users, item \in ItemIds : DeactivatePlaidAccount(u, item)
    \/ \E u \in Users, item \in ItemIds \cup {None} : GetUserPlaidAccounts(u, item)

\* No linked-account operation reads what execute returns.
InitPlaid == Init /\ driver = "none"

SpecPlaid == InitPlaid /\ [][NextPlaid]_vars

\* create_plaid_account calls running concurrently, their statements
\* interleaving: the calls that link item-1's first account.
SameTriplePlaidData ==
    {data \in PlaidData : data.item_id = "item-1" /\ data.account_id = "acct-1"}

NextPlaidConcurrent ==
    \/ \E p \in Procs, u \in UserIds, data \in SameTriplePlaidData :
          PlaidSelectExisting(p, u, data)
    \/ \E p \in Procs : PlaidWrite(p)
    \/ \E p \in Procs : PlaidReturn(p)

SpecPlaidConcurrent == InitPlaid /\ [][NextPlaidConcurrent]_vars

(***************************************************************************)
(* What the claims read.                                                   *)
(***************************************************************************)
\* What GET /api/trips/stats would answer in the current state.
StatsNow == StatsWire(StatsRead(trips, stats))

\* What GET /api/trips/{id} would answer in the current state (id present).
TripNow(id) == TripWire(id, trips[id])

\* COUNT(*), SUM(distance), SUM(potential) over the trips table as it is.
TripCount == Cardinality(DOMAIN trips)
SumDistance == SumOver([i \in DOMAIN trips |-> trips[i].distance], DOMAIN trips)
SumPotential == SumOver([i \in DOMAIN trips |-> trips[i].potential], DOMAIN trips)

TripMutations == {"create_trip", "update_trip", "delete_trip"}

MutationSucceeded == resp.op \in TripMutations /\ resp.status = 200

\* C1 as stated: after every successful POST, PUT or DELETE of a trip, the
\* three values of GET /api/trips/stats equal the count of trips, the sum of
\* distance and the sum of potential over the trips table.
C1_StatsEqualSums ==
    MutationSucceeded =>
        /\ StatsNow.totalDrives = TripCount
        /\ StatsNow.totalMiles * 1000 = SumDistance
        /\ StatsNow.totalLogged * 1000 = SumPotential

\* C1 amended: after every successful POST, PUT or DELETE of a trip,
\* totalDrives equals the count of trips, and totalMiles and totalLogged
\* equal the sum of distance and the sum of potential over the trips table
\* truncated to whole numbers.
C1_StatsEqualTruncatedSums ==
    MutationSucceeded =>
        /\ StatsNow.totalDrives = TripCount
        /\ StatsNow.totalMiles = PyInt(SumDistance)
        /\ StatsNow.totalLogged = PyInt(SumPotential)

\* A successful mutation has left sums that are no whole numbers.
C1_Witness ==
    /\ MutationSucceeded
    /\ SumDistance % 1000 # 0
    /\ SumPotential % 1000 # 0
    /\ stats # <<sample_stats>>

\* C2: a successful POST /api/trips makes totalDrives of GET /api/trips/stats
\* exactly one greater than it was immediately before the POST.
C2_DrivesIncrementByOne ==
    [][(resp'.op = "create_trip" /\ resp'.status = 200)
          => StatsNow'.totalDrives = StatsNow.totalDrives + 1]_vars

\* The posted body with the assigned id: what the claim expects back.
WithId(body, id) ==
    [id |-> id, date |-> body.date, startTime |-> body.startTime,
     endTime |-> body.endTime, startLocation |-> body.startLocation,
     endLocation |-> body.endLocation, distance |-> body.distance,
     potential |-> body.potential, type |-> body.type, notes |-> body.notes]

Abs(x) == IF x >= 0 THEN x ELSE -x

\* The Trip `got` is the posted body with the id, but for distance and
\* potential, which are the posted values rounded to one decimal (distance)
\* and to two decimals (potential).
SameButRounded(got, body, id) ==
    /\ [got EXCEPT !.distance = body.distance, !.potential = body.potential]
         = WithId(body, id)
    /\ got.distance % 100 = 0
    /\ 2 * Abs(got.distance - body.distance) <= 100
    /\ got.potential % 10 = 0
    /\ 2 * Abs(got.potential - body.potential) <= 10

\* C3 as stated: after POST /api/trips, the response is the posted body plus
\* the assigned id, and GET /api/trips/{id} returns the same values.
C3_RoundTripIdentical ==
    (resp.op = "create_trip" /\ resp.status = 200) =>
        /\ resp.body = WithId(resp.aux, resp.arg)
        /\ resp.arg \in DOMAIN trips
        /\ TripNow(resp.arg) = WithId(resp.aux, resp.arg)

\* C3 amended: after POST /api/trips, the response and GET /api/trips/{id}
\* agree and hold the posted values, with distance rounded to one decimal
\* place and potential to two (so identical when the posted numbers have no
\* more decimals than that); and any request that is no update or delete of
\* that trip leaves its row, which is all GET /api/trips/{id} reads, unchanged.
C3_RoundTripRounded ==
    [][/\ (resp'.op = "create_trip" /\ resp'.status = 200) =>
            /\ resp'.arg \in DOMAIN trips'
            /\ resp'.arg \notin DOMAIN trips
            /\ resp'.body = TripWire(resp'.arg, trips'[resp'.arg])
            /\ SameButRounded(resp'.body, resp'.aux, resp'.arg)
       /\ \A id \in DOMAIN trips :
            ~(resp'.op \in {"update_trip", "delete_trip"} /\ resp'.arg = id) =>
                /\ id \in DOMAIN trips'
                /\ trips'[id] = trips[id]]_vars

\* A trip posted with more decimals than are kept, fetched unchanged later.
C3_Witness ==
    /\ resp.op = "get_trip" /\ resp.status = 200
    /\ resp.body.date = "SAT 30"
    /\ resp.body.distance = 2600
    /\ resp.body.potential = 1230

\* C4: after DELETE /api/trips/{id} for an existing trip (it succeeds only
\* for one), the trip is no longer returned by GET, no route point with that
\* trip id remains, every receipt that was tagged to it still exists with
\* its trip reference null, and no receipt row is removed or otherwise
\* changed.
C4_DeleteTripCascade ==
    [][resp'.op = "delete_trip" =>
         /\ resp'.status = 200 => resp'.arg \in DOMAIN trips
         /\ resp'.arg \in DOMAIN trips =>
              /\ get_trip_by_id(trips', resp'.arg) = <<>>
              /\ \A p \in routes' : p.trip_id # resp'.arg
              /\ DOMAIN receipts' = DOMAIN receipts
              /\ \A r \in DOMAIN receipts :
                    receipts'[r] =
                        IF receipts[r].trip_id = resp'.arg
                        THEN [receipts[r] EXCEPT !.trip_id = Null]
                        ELSE receipts[r]]_vars

\* A trip with a receipt tagged to it has been deleted with success; the
\* receipt is there, untagged.
C4_Witness ==
    /\ resp.op = "delete_trip" /\ resp.status = 200
    /\ resp.aux # {}
    /\ \A r \in resp.aux : r \in DOMAIN receipts /\ receipts[r].trip_id = Null
    /\ resp.arg \notin DOMAIN trips

\* The declared content types of the model that name no image format and
\* are not the generic application/octet-stream.
NonImageTypes == {"text/plain", "application/pdf"}

HasImageExtension(filename) ==
    /\ Len(filename) >= 2
    /\ Lower(filename[Len(filename)]) \in allowed_extensions

\* C5: an upload whose extension is not in the image allow-list and whose
\* declared content type is a non-image type such as text/plain is answered
\* 400, and neither a file nor a receipt row is created.
C5_NonImageRejected ==
    [][(/\ resp'.op = "upload_receipt"
        /\ ~HasImageExtension(resp'.aux.file.filename)
        /\ resp'.aux.file.content_type \in NonImageTypes)
          => /\ resp'.status = 400
             /\ files' = files
             /\ receipts' = receipts]_vars

\* notes.txt declared text/plain has been refused.
C5_Witness ==
    /\ resp.op = "upload_receipt" /\ resp.status = 400
    /\ resp.aux.file = [filename |-> <<"notes", "txt">>, content_type |-> "text/plain"]

\* C6: an upload of a .jpg file with no declared content type, or with
\* application/octet-stream, in which no step fails succeeds, writes the
\* file, and creates a receipt row whose mime_type is image/jpeg and whose
\* trip reference is null.
C6_JpgWithoutTypeStored ==
    [][(/\ resp'.op = "upload_receipt"
        /\ resp'.aux.fault = "none"
        /\ Len(resp'.aux.file.filename) >= 2
        /\ resp'.aux.file.filename[Len(resp'.aux.file.filename)] = "jpg"
        /\ resp'.aux.file.content_type \in {None, "application/octet-stream"})
          => /\ resp'.status = 200
             /\ resp'.aux.path \in files' \ files
             /\ resp'.arg \in DOMAIN receipts' \ DOMAIN receipts
             /\ receipts'[resp'.arg].mime_type = "image/jpeg"
             /\ receipts'[resp'.arg].trip_id = Null
             /\ receipts'[resp'.arg].url = <<"uploads", "receipts", resp'.aux.path>>
             /\ resp'.aux.path[2] = "jpg"]_vars

\* a.jpg with no declared content type has been stored.
C6_Witness ==
    /\ resp.op = "upload_receipt" /\ resp.status = 200
    /\ resp.aux.file = [filename |-> <<"a", "jpg">>, content_type |-> None]
    /\ resp.arg \in DOMAIN receipts
    /\ receipts[resp.arg].mime_type = "image/jpeg"
    /\ resp.aux.path \in files

\* C7: when an upload fails after its file was opened for writing (the
\* write, reading the size, or the insert of the row) and ends with its 500,
\* the file is no longer in the upload directory and no receipt row refers
\* to it.
C7_FailedUploadLeavesNoFile ==
    (/\ resp.op = "upload_receipt"
     /\ resp.status = 500
     /\ resp.aux.fault \in {"write", "getsize", "insert"})
        => /\ resp.aux.path \notin files
           /\ \A r \in DOMAIN receipts :
                 receipts[r].url # <<"uploads", "receipts", resp.aux.path>>

\* C8: a trip update changes only the type and notes of the addressed trip:
\* its other columns and every other row are unchanged, no row appears or
\* disappears, the fields passed take the values passed, and a field outside
\* the allow-list in the body is ignored without an error.
C8_UpdateFrame ==
    [][resp'.op = "update_trip" =>
         /\ DOMAIN trips' = DOMAIN trips
         /\ trip_seq' = trip_seq
         /\ \A i \in DOMAIN trips :
               IF i # resp'.arg \/ resp'.status # 200 THEN trips'[i] = trips[i]
               ELSE /\ [trips'[i] EXCEPT !.type = trips[i].type,
                                         !.notes = trips[i].notes] = trips[i]
                    /\ trips'[i].type =
                         IF resp'.aux.type # None THEN resp'.aux.type
                         ELSE trips[i].type
                    /\ trips'[i].notes =
                         IF resp'.aux.notes # None THEN resp'.aux.notes
                         ELSE trips[i].notes
         /\ (resp'.arg \in DOMAIN trips /\ resp'.aux.type \in TripTypes \cup {None})
               => resp'.status = 200]_vars

\* An update that carried a distance has succeeded, with another trip in
\* the table, and the distance of the addressed trip is not the one carried.
C8_Witness ==
    /\ resp.op = "update_trip" /\ resp.status = 200
    /\ resp.aux.distance # Null
    /\ resp.body.notes = "n"
    /\ trips[resp.arg].distance # resp.aux.distance
    /\ Cardinality(DOMAIN trips) >= 2

\* C9: GET, PUT and DELETE on /api/trips/{id} for an id not in the trips
\* table, and tag and delete of a receipt id not in the receipts table, are
\* answered 404 and leave the trips, receipts, route and stats tables and
\* the upload directory unchanged.
C9_MissingIsNotFound ==
    [][(\/ /\ resp'.op \in {"get_trip", "delete_trip"}
           /\ resp'.arg \notin DOMAIN trips
        \/ /\ resp'.op = "update_trip"
           /\ resp'.arg \notin DOMAIN trips
           /\ ParseTripUpdate(resp'.aux) # <<>>
        \/ /\ resp'.op \in {"tag_receipt", "delete_receipt"}
           /\ resp'.arg \notin DOMAIN receipts)
          => /\ resp'.status = 404
             /\ UNCHANGED <<trips, receipts, routes, stats, files>>]_vars

\* How many entries of a listing are of the given item and account.
EntriesFor(listing, item_id, account_id) ==
    Cardinality({k \in 1..Len(listing) :
                    /\ listing[k].item_id = item_id
                    /\ listing[k].account_id = account_id})

\* C10: create_plaid_account for a (user, item id, account id) triple for
\* which a row exists, active or inactive, leaves the number of rows of
\* plaid_accounts as it was, and get_user_plaid_accounts for that user
\* afterwards holds exactly one entry for that triple.
C10_RelinkKeepsOneRow ==
    [][(/\ resp'.op = "create_plaid_account"
        /\ \E r \in plaid_accounts :
              /\ r.user_id = resp'.aux.user_id
              /\ r.item_id = resp'.aux.data.item_id
              /\ r.account_id = resp'.aux.data.account_id)
          => /\ Cardinality(plaid_accounts') = Cardinality(plaid_accounts)
             /\ {r.id : r \in plaid_accounts'} = {r.id : r \in plaid_accounts}
             /\ EntriesFor(get_user_plaid_accounts(plaid_accounts',
                               resp'.aux.user_id, None),
                           resp'.aux.data.item_id,
                           resp'.aux.data.account_id) = 1
             /\ EntriesFor(get_user_plaid_accounts(plaid_accounts',
                               resp'.aux.user_id, resp'.aux.data.item_id),
                           resp'.aux.data.item_id,
                           resp'.aux.data.account_id) = 1]_vars

\* An account that had been deactivated has been linked again, beside
\* another row.
C10_Witness ==
    /\ resp.op = "create_plaid_account"
    /\ \E r \in resp.aux.existing : ~r.is_active
    /\ Cardinality(plaid_accounts) >= 2
    /\ resp.body # None /\ resp.body[1].is_active

\* C11: after deactivate_plaid_account(user, item) no account of that user
\* and item is in get_user_plaid_accounts (asked with the item or without),
\* the call has returned true, no row of plaid_accounts has been removed or
\* added, a row changes in nothing but its is_active, and the rows of other
\* users or other items keep their is_active.
C11_DeactivateIsSoft ==
    [][resp'.op = "deactivate_plaid_account" =>
         LET u == resp'.aux.user_id
             item == resp'.aux.item_id
             all == get_user_plaid_accounts(plaid_accounts', u, None)
             ofItem == get_user_plaid_accounts(plaid_accounts', u, item)
         IN  /\ ofItem = <<>>
             /\ \A k \in 1..Len(all) : all[k].item_id # item
             /\ resp'.body = TRUE
             /\ {r.id : r \in plaid_accounts'} = {r.id : r \in plaid_accounts}
             /\ Cardinality(plaid_accounts') = Cardinality(plaid_accounts)
             /\ \A r \in plaid_accounts : \E q \in plaid_accounts' :
                   /\ q.id = r.id
                   /\ [q EXCEPT !.is_active = r.is_active] = r
                   /\ (r.user_id # u \/ r.item_id # item)
                         => q.is_active = r.is_active]_vars

\* An active account has been deactivated while the same user has an active
\* account of another item: the first is still a row, inactive, the second
\* is still active.
C11_Witness ==
    /\ resp.op = "deactivate_plaid_account"
    /\ resp.body = TRUE
    /\ \E r \in plaid_accounts :
          /\ r.user_id = resp.aux.user_id
          /\ r.item_id = resp.aux.item_id
          /\ ~r.is_active
    /\ \E r \in plaid_accounts :
          /\ r.user_id = resp.aux.user_id
          /\ r.item_id # resp.aux.item_id
          /\ r.is_active

\* C19: create_plaid_account for a (user, item id, account id) triple whose
\* row exists, in particular one that deactivate_plaid_account has made
\* inactive, leaves that row active with the access token and the
\* institution/account metadata of this call, returns it, and it is in
\* get_user_plaid_accounts of the user; no other row changes.
C19_RelinkReactivates ==
    [][(resp'.op = "create_plaid_account" /\ resp'.aux.existing # {}) =>
         LET u == resp'.aux.user_id
             data == resp'.aux.data
             now == FindExisting(plaid_accounts', u, data.item_id, data.account_id)
             listing == get_user_plaid_accounts(plaid_accounts', u, None)
         IN  /\ {r.id : r \in now} = {r.id : r \in resp'.aux.existing}
             /\ \A r \in now :
                   /\ r.is_active
                   /\ r.access_token = data.access_token
                   /\ r.institution_name = data.institution_name
                   /\ \E k \in 1..Len(listing) : listing[k] = PlaidListed(r)
             /\ resp'.body # None /\ resp'.body[1] \in now
             /\ plaid_accounts' \ now = plaid_accounts \ resp'.aux.existing]_vars

\* A row that was inactive and held another access token and institution
\* has been linked again: it is active and holds those of the call.
C19_Witness ==
    /\ resp.op = "create_plaid_account"
    /\ \E r \in resp.aux.existing :
          /\ ~r.is_active
          /\ r.access_token # resp.aux.data.access_token
          /\ r.institution_name # resp.aux.data.institution_name
          /\ \E q \in plaid_accounts :
                /\ q.id = r.id /\ q.is_active
                /\ q.access_token = resp.aux.data.access_token
    /\ Len(get_user_plaid_accounts(plaid_accounts, resp.aux.user_id,
                                   resp.aux.data.item_id)) >= 1

\* The INSERT of the last create_plaid_account was refused by the foreign
\* key on plaid_accounts.user_id: no row of the triple, no such user.
InsertRefused ==
    /\ resp.op = "create_plaid_account"
    /\ resp.aux.existing = {}
    /\ resp.aux.user_id \notin Users

\* C14: when a query or insert inside create_plaid_account fails, the call
\* ends with an error (a status other than the 200 of a normal return), not
\* with a normal empty or null result.
C14_StorageFailureSurfaces ==
    InsertRefused => (resp.status # 200 /\ resp.body # None)

\* C15: every upload that is accepted has a file name extension in the
\* image extension allow-list or a declared content type in the content
\* type allow-list; notes.txt with no declared content type is not accepted.
C15_AcceptedIsAllowListed ==
    (resp.op = "upload_receipt" /\ resp.status = 200) =>
        \/ HasImageExtension(resp.aux.file.filename)
        \/ /\ resp.aux.file.content_type # None
           /\ Lower(resp.aux.file.content_type) \in allowed_mime_types

\* C12: DELETE /api/receipts/{id} of an existing receipt that returns
\* success leaves neither the row nor the file its url names, and no such
\* request ends with one of the two removed and the other still present.
C12_DeleteReceiptBothOrNeither ==
    [][(resp'.op = "delete_receipt" /\ resp'.arg \in DOMAIN receipts) =>
         LET file_path == receipts[resp'.arg].url[Len(receipts[resp'.arg].url)]
         IN  /\ resp'.status = 200 =>
                   (resp'.arg \notin DOMAIN receipts' /\ file_path \notin files')
             /\ (resp'.arg \in DOMAIN receipts') <=> (file_path \in files')]_vars

\* C17: when no stats row exists, get_trip_stats returns the count and sums
\* computed over the current trips table and inserts the stats row with
\* those values; when a stats row exists, it returns that row and changes
\* no table.
C17_ColdReadComputes ==
    [][resp'.op = "get_trip_stats" =>
         /\ resp'.aux.row = stats
         /\ IF stats = <<>>
            THEN /\ resp'.aux.stats = Aggregate(trips)
                 /\ resp'.aux.stats.total_drives = TripCount
                 /\ resp'.aux.stats.total_miles = SumDistance
                 /\ resp'.aux.stats.total_logged = SumPotential
                 /\ stats' = <<resp'.aux.stats>>
            ELSE /\ resp'.aux.stats = stats[1]
                 /\ stats' = stats
         /\ UNCHANGED <<trips, trip_seq, routes, receipts, plaid_accounts>>]_vars

\* A read that found no stats row has left the row it computed.
C17_Witness ==
    /\ resp.op = "get_trip_stats"
    /\ resp.aux.row = <<>>
    /\ stats = <<resp.aux.stats>>
    /\ resp.aux.stats.total_drives = TripCount

\* C18: in every reachable state no two route points of the same trip have
\* the same sequence index, also after POST /api/trips/{id}/route has been
\* called more than once for the trip.
C18_SequenceIndexUnique ==
    \A p, q \in routes :
        (p.trip_id = q.trip_id /\ p.sequence_order = q.sequence_order) => p = q

\* No trip mutation is in flight.
Quiescent == \A p \in Procs : procs[p].pc = "idle"

\* C13: with trip create/update/delete requests running concurrently, in
\* every state where no trip mutation is in flight and the last one that
\* completed has succeeded, the stats row equals the count and sums over the
\* current trips table.
C13_QuiescentStatsFresh ==
    (Quiescent /\ MutationSucceeded) => stats = <<Aggregate(trips)>>

\* C16: whatever the stats row was before (stale after a crash between a
\* trip statement and the recompute, stale from the startup seeding, or
\* fresh), a trip create, update or delete that completes successfully,
\* with requests running one at a time, leaves the stats row equal to the
\* aggregate over the trips table.
C16_NextMutationRepairs ==
    [][(/\ resp'.op \in TripMutations
        /\ resp'.status = 200
        /\ \E p \in Procs : procs[p].pc = "upsert" /\ procs'[p].pc = "idle")
          => stats' = <<Aggregate(trips')>>]_vars

\* The stats row was stale, and not from the seeding, when a request began
\* (execute returns row counts, so a crash had left it stale); the request
\* has succeeded and the row is the aggregate.
C16_Witness ==
    /\ MutationSucceeded
    /\ Quiescent
    /\ driver = "rowcount"
    /\ resp.aux.stale = "stale"
    /\ stats = <<Aggregate(trips)>>

\* C20: with create_plaid_account calls for the same (user, item id,
\* account id) triple running concurrently, plaid_accounts never holds two
\* rows for one triple.
C20_OneRowPerTriple ==
    \A r1, r2 \in plaid_accounts :
        (/\ r1.user_id = r2.user_id
         /\ r1.item_id = r2.item_id
         /\ r1.account_id = r2.account_id) => r1 = r2

\* Every receipt's trip reference is null or the id of a trip in the table,
\* and every route point's trip id is the id of a trip in the table.
ReferencesValid ==
    /\ \A r \in DOMAIN receipts :
          receipts[r].trip_id = Null \/ receipts[r].trip_id \in DOMAIN trips
    /\ \A point \in routes : point.trip_id \in DOMAIN trips

\* C21: in every reachable state the trip references of receipts and route
\* points are valid, and PUT /api/receipts/{id}/tag with the id of a trip
\* that does not exist leaves the receipts table as it was.
C21_ReferencesValid ==
    /\ []ReferencesValid
    /\ [][(/\ resp'.op = "tag_receipt"
           /\ resp'.aux # Null
           /\ resp'.aux \notin DOMAIN trips) => receipts' = receipts]_vars

\* A receipt tagged with a trip has been tagged again with the id of a trip
\* that does not exist, and the request was refused.
C21_Witness ==
    /\ resp.op = "tag_receipt"
    /\ resp.status = 500
    /\ resp.aux \notin DOMAIN trips
    /\ resp.arg \in DOMAIN receipts
    /\ receipts[resp.arg].trip_id \in DOMAIN trips
    /\ \E point \in routes : point.id > Cardinality(SampleRoutes)

\* The image MIME types.
ImageMimeTypes ==
    {"image/jpeg", "image/png", "image/gif", "image/bmp", "image/webp",
     "image/tiff"}

\* C22: every receipt row created by POST /api/receipts/upload has a
\* mime_type that is one of the image MIME types, whatever content type the
\* client declared.
C22_StoredMimeIsImage ==
    \A r \in DOMAIN receipts : receipts[r].mime_type \in ImageMimeTypes

\* The files named by the url of some receipt row.
FilesOfRows == {receipts[r].url[Len(receipts[r].url)] : r \in DOMAIN receipts}

\* C23: when no storage or file operation fails, after any sequence of
\* uploads, tags, receipt deletions and trip deletions the files of the
\* upload directory are exactly the files named by the url of a receipt row.
C23_FilesAreFilesOfRows == files = FilesOfRows

\* The trip a receipt was tagged with has been deleted: the row and its file
\* are both still there.
C23_Witness ==
    /\ resp.op = "delete_trip"
    /\ resp.aux # {}
    /\ DOMAIN receipts # {}
    /\ files # {}

\* The trips table holds the two sample trips and nothing else, each with
\* the sample route points in their order.
HoldsSampleData(t, r) ==
    /\ Cardinality(DOMAIN t) = Len(sample_trips)
    /\ {t[i] : i \in DOMAIN t} = {sample_trips[k] : k \in 1..Len(sample_trips)}
    /\ \A i \in DOMAIN t :
          {<<point.sequence_order, point.latitude, point.longitude>> :
              point \in {row \in r : row.trip_id = i}}
            = {<<k - 1, sample_route_points[k][1], sample_route_points[k][2]>> :
                  k \in 1..Len(sample_route_points)}

\* C24: POST /api/admin/reset-database leaves every table unchanged when
\* the trips table is not empty; with an empty trips table, a stats row of id
\* 1 in place or not, it completes without error and leaves the two sample
\* trips with their route points and a stats row.
C24_ResetDatabase ==
    [][resp'.op = "reset_database" =>
         IF DOMAIN trips # {}
         THEN /\ resp'.status = 200
              /\ UNCHANGED <<trips, routes, stats, receipts, plaid_accounts>>
         ELSE /\ resp'.status = 200
              /\ HoldsSampleData(trips', routes')
              /\ stats' # <<>>]_vars

====
